---- MODULE Spec2Model ----
(***************************************************************************)
(* A model of WebKit::FormatReader                                         *)
(* (Source/WebKit/Shared/mac/MediaFormatReader/FormatReader.{h,cpp}).      *)
(*                                                                         *)
(* Threads: the main thread, which runs the callOnMainThread queue in FIFO *)
(* order; the reader queue, on which one SourceBufferParser per            *)
(* parseByteSource call runs appendData and posts its callbacks to the     *)
(* main thread; and the caller threads of copyProperty / copyTrackArray.   *)
(*                                                                         *)
(* ASSERT is compiled out of release builds, and a debug build aborts at   *)
(* a failed ASSERT: the behaviours of a debug build are prefixes of the    *)
(* behaviours modelled here.  The assertions are stated as properties.     *)
(***************************************************************************)
EXTENDS Integers, Sequences, FiniteSets, TLC

\* ------------------------------------------------------------ bounds
NumThreads == 2
MaxGenerations == 2
MaxSamples == 2
\* Tracks of a kind a segment declares where threads run concurrently.
ConcurrentTracks == 1
\* Tracks of a kind a segment declares where didParseTracks is studied.
MaxVideoTracks == 2
MaxAudioTracks == 2
MaxTextTracks == 1

Threads == 1..NumThreads
\* Holders of m_parseTracksLock: a caller thread, the main thread, nobody.
Main == NumThreads + 1
Unlocked == 0
\* The threads that can run copyProperty and copyTrackArray.
AllThreads == Threads \cup {Main}
ByteSources == 1..MaxGenerations
NoByteSource == 0
ErrorCodes == {5}
SegmentDurations == {12}
Keys == {"Duration", "Other"}

\* ------------------------------------------------------------ values
\* MediaTime: a value and the Valid flag.
InvalidTime == [valid |-> FALSE, value |-> 0]
MediaTime(v) == [valid |-> TRUE, value |-> v]
\* What didParseTracks({ }, errorCode) passes: a value-initialised segment.
EmptySegment == [videoTracks |-> << >>, audioTracks |-> << >>,
                 textTracks |-> << >>, duration |-> MediaTime(0)]

\* Track descriptors of a segment: the track id the parser assigned, and
\* whether TrackReader::create will succeed for it.
Descriptor(id, ok) == [trackID |-> id, ok |-> ok]
FlagSeqs(n) == UNION {[1..k -> BOOLEAN] : k \in 0..n}
Descriptors(flags, base) ==
  [i \in 1..Len(flags) |-> Descriptor(base + i, flags[i])]
SegmentsUpTo(maxV, maxA, maxT) ==
  {[videoTracks |-> Descriptors(v, 0),
    audioTracks |-> Descriptors(a, Len(v)),
    textTracks  |-> Descriptors(t, Len(v) + Len(a)),
    duration    |-> MediaTime(d)] :
      v \in FlagSeqs(maxV), a \in FlagSeqs(maxA), t \in FlagSeqs(maxT),
      d \in SegmentDurations}
AllCreated(segment) ==
  \A kind \in {"videoTracks", "audioTracks", "textTracks"} :
    \A i \in 1..Len(segment[kind]) : segment[kind][i].ok
\* Segments of video and audio tracks whose channels are all created.
Segments ==
  {s \in SegmentsUpTo(ConcurrentTracks, ConcurrentTracks, 0) : AllCreated(s)}
\* Segments of all three kinds, with channels that fail to be created.
AllSegments == SegmentsUpTo(MaxVideoTracks, MaxAudioTracks, MaxTextTracks)
\* The track ids of media samples.
TrackIDs == 1..(ConcurrentTracks + ConcurrentTracks)

\* A task of the main thread's queue.
Task(op, gen) == [op |-> op, gen |-> gen, seg |-> EmptySegment, code |-> 0,
                  trackID |-> 0, sample |-> 0]
NoTask == Task("none", 0)

VARIABLES
  m_byteSource,           \* the byte source stored by parseByteSource
  m_parseTracksStatus,    \* "nullopt" or an OSStatus
  m_duration,
  m_trackReaders,         \* sequence of TrackReader
  m_parseTracksLock,      \* holder of the lock: Unlocked, Main or a thread
  m_parseTracksCondition, \* the threads parked on the condition
  mainQueue,              \* callOnMainThread's FIFO: the parseByteSource tasks
  mainPc, mainTask,       \* what the main thread is running
  parser,                 \* per byte source: the state of its parser
  emitted,                \* per byte source: samples its parser emitted
  started,                \* startOnMainThread calls made so far
  generation,             \* history: the byte source of the last reset
  durationGen,            \* history: whose segment m_duration comes from
  reported,               \* history: didParseTracks has been called
  blockedEarly,           \* history: threads parked before the first one
  pc, call, result        \* per thread: where it is in copyProperty or
                          \* copyTrackArray, which of the two, the result

vars == <<m_byteSource, m_parseTracksStatus, m_duration, m_trackReaders,
          m_parseTracksLock, m_parseTracksCondition, mainQueue, mainPc,
          mainTask, parser, emitted, started, generation, durationGen,
          reported, blockedEarly, pc, call, result>>

session == <<m_byteSource, m_parseTracksStatus, m_duration, m_trackReaders,
             generation, durationGen, reported>>
mainVars == <<mainQueue, mainPc, mainTask>>
parserVars == <<parser, emitted>>
callerVars == <<pc, call, result, blockedEarly>>

NoResult == [ret |-> "none", duration |-> [flags |-> "None", value |-> 0],
             tracks |-> << >>]

\* FormatReader::FormatReader: m_duration starts invalid, the Optional empty.
Init ==
  /\ m_byteSource = NoByteSource
  /\ m_parseTracksStatus = "nullopt"
  /\ m_duration = InvalidTime
  /\ m_trackReaders = << >>
  /\ m_parseTracksLock = Unlocked
  /\ m_parseTracksCondition = {}
  /\ mainQueue = << >>
  /\ mainPc = "idle"
  /\ mainTask = NoTask
  /\ parser = [b \in ByteSources |-> "none"]
  /\ emitted = [b \in ByteSources |-> 0]
  /\ started = 0
  /\ generation = 0
  /\ durationGen = 0
  /\ reported = FALSE
  /\ blockedEarly = {}
  /\ pc = [t \in AllThreads |-> "idle"]
  /\ call = [t \in AllThreads |-> "none"]
  /\ result = [t \in AllThreads |-> NoResult]

\* ------------------------------------------------------------ TrackReader
\* TrackReader::create: a disabled channel without samples, or null.
\* gen is history: the byte source whose parser declared the track;
\* received is history: the media samples delivered for the track's id
\* since it was created.
CreateTrackReader(desc, kind, gen) ==
  IF desc.ok
    THEN << [trackID |-> desc.trackID, kind |-> kind, enabled |-> FALSE,
             samples |-> << >>, finished |-> FALSE, gen |-> gen,
             received |-> << >>] >>
    ELSE << >>

\* m_trackReaders[index]->setEnabled(true), index counted from 0.
SetEnabled(readers, index) ==
  [readers EXCEPT ![index + 1].enabled = TRUE]

\* TrackReader::addSample(sample, byteSource)
AddSample(readers, i, sample, byteSource) ==
  [readers EXCEPT ![i].samples =
     Append(@, [gen |-> sample.gen, n |-> sample.n, byteSource |-> byteSource])]

\* ------------------------------------------------------------ didParseTracks
\* The first loop: one iteration per video track of the segment.
RECURSIVE AppendVideoTracks(_, _, _)
AppendVideoTracks(readers, videoTracks, gen) ==
  IF videoTracks = << >> THEN readers
  ELSE LET appended == readers \o CreateTrackReader(Head(videoTracks), "video", gen)
           enabled == IF Len(appended) = 1 THEN SetEnabled(appended, 0)
                      ELSE appended
       IN AppendVideoTracks(enabled, Tail(videoTracks), gen)

\* AppendAudioTracks with an audio track enabled only where the segment
\* declares no video track.
RECURSIVE AppendAudioTracksVideoOnly(_, _, _, _)
AppendAudioTracksVideoOnly(readers, audioTracks, videoCount, gen) ==
  IF audioTracks = << >> THEN readers
  ELSE LET appended == readers \o CreateTrackReader(Head(audioTracks), "audio", gen)
           enabled == IF videoCount = 0 /\ Len(appended) = 1
                        THEN SetEnabled(appended, 0)
                        ELSE appended
       IN AppendAudioTracksVideoOnly(enabled, Tail(audioTracks), videoCount, gen)

\* The second loop; videoCount is segment.videoTracks.size().
RECURSIVE AppendAudioTracks(_, _, _, _)
AppendAudioTracks(readers, audioTracks, videoCount, gen) ==
  IF audioTracks = << >> THEN readers
  ELSE LET appended == readers \o CreateTrackReader(Head(audioTracks), "audio", gen)
           enabled == IF Len(appended) = videoCount + 1
                        THEN SetEnabled(appended, videoCount)
                        ELSE appended
       IN AppendAudioTracks(enabled, Tail(audioTracks), videoCount, gen)

\* The third loop.
RECURSIVE AppendTextTracks(_, _, _)
AppendTextTracks(readers, textTracks, gen) ==
  IF textTracks = << >> THEN readers
  ELSE AppendTextTracks(readers \o CreateTrackReader(Head(textTracks), "text", gen),
                        Tail(textTracks), gen)

\* m_parseTracksStatus = errorCode ? ParsingFailure : noErr
StatusOf(errorCode) ==
  IF errorCode # 0 THEN "ParsingFailure" ELSE "noErr"

TrackReadersAfter(readers, segment, gen) ==
  AppendTextTracks(
    AppendAudioTracks(
      AppendVideoTracks(readers, segment.videoTracks, gen),
      segment.audioTracks, Len(segment.videoTracks), gen),
    segment.textTracks, gen)

\* notifyAll that wakes nobody.
NotifyNobody == m_parseTracksCondition

\* m_parseTracksCondition.notifyAll()
NotifyAll == {}

\* The body of didParseTracks, run with the lock held; the lock is released
\* when the function returns.
DidParseTracks(segment, errorCode, gen) ==
  /\ m_parseTracksStatus' = StatusOf(errorCode)
  /\ m_duration' = segment.duration
  /\ durationGen' = gen
  /\ reported' = TRUE
  /\ m_trackReaders' = TrackReadersAfter(m_trackReaders, segment, gen)
  /\ m_parseTracksCondition' = NotifyAll
  /\ m_parseTracksLock' = Unlocked
  /\ mainPc' = "idle"
  /\ mainTask' = NoTask
  /\ UNCHANGED <<m_byteSource, generation, mainQueue>>

\* ------------------------------------------------------------ main thread
\* The main thread is between two tasks, and not inside a call of
\* copyTrackArray made on it.
MainThreadIdle == mainPc = "idle" /\ pc[Main] \in {"idle", "done"}

\* startOnMainThread, called on any other thread: callOnMainThread.
StartOnMainThread(calls) ==
  /\ started < calls
  /\ started' = started + 1
  /\ mainQueue' = Append(mainQueue, Task("parse", started + 1))
  /\ UNCHANGED <<session, m_parseTracksLock, m_parseTracksCondition, mainPc,
                 mainTask, parserVars, callerVars>>

\* parseByteSource when SourceBufferParser::create returns null: the status
\* is written and the function returns before the lock is taken.
ParseByteSourceNoParser ==
  /\ MainThreadIdle
  /\ mainQueue # << >>
  /\ Head(mainQueue).op = "parse"
  /\ m_parseTracksStatus' = "AllocationFailure"
  /\ mainQueue' = Tail(mainQueue)
  /\ UNCHANGED <<m_byteSource, m_duration, m_trackReaders, generation,
                 durationGen, reported, m_parseTracksLock,
                 m_parseTracksCondition, mainPc, mainTask, parserVars,
                 started, callerVars>>

\* The main thread, between two tasks, starts its next one and takes the
\* lock (holdLock).
MainHoldLock(task) ==
  /\ MainThreadIdle
  /\ m_parseTracksLock = Unlocked
  /\ m_parseTracksLock' = Main
  /\ mainPc' = "locked"
  /\ mainTask' = task
  /\ UNCHANGED <<session, m_parseTracksCondition, started, callerVars>>

\* parseByteSource up to holdLock, the parser created.
ParseByteSourceHoldLock ==
  /\ mainQueue # << >>
  /\ MainHoldLock(Head(mainQueue))
  /\ mainQueue' = Tail(mainQueue)
  /\ UNCHANGED parserVars

\* parseByteSource from the lock on: the reset, the three callbacks, and
\* the dispatch of appendData to the reader queue.
ParseByteSource ==
  /\ mainPc = "locked"
  /\ mainTask.op = "parse"
  /\ m_byteSource' = mainTask.gen
  /\ m_parseTracksStatus' = "nullopt"
  /\ m_duration' = InvalidTime
  /\ m_trackReaders' = << >>
  /\ generation' = mainTask.gen
  /\ durationGen' = 0
  /\ parser' = [parser EXCEPT ![mainTask.gen] = "appending"]
  /\ m_parseTracksLock' = Unlocked
  /\ mainPc' = "idle"
  /\ mainTask' = NoTask
  /\ UNCHANGED <<m_parseTracksCondition, mainQueue, emitted, started,
                 reported, callerVars>>

\* The didParseInitializationData callback: didParseTracks(segment, noErr).
DidParseInitializationData ==
  /\ mainPc = "locked"
  /\ mainTask.op = "init"
  /\ DidParseTracks(mainTask.seg, 0, mainTask.gen)
  /\ UNCHANGED <<parserVars, started, callerVars>>

\* The didEncounterErrorDuringParsing callback: didParseTracks({ }, code).
DidEncounterErrorDuringParsing ==
  /\ mainPc = "locked"
  /\ mainTask.op = "error"
  /\ DidParseTracks(EmptySegment, mainTask.code, mainTask.gen)
  /\ UNCHANGED <<parserVars, started, callerVars>>

\* findMatching that falls back on the first channel where none matches.
FindMatchingOrFirst(readers, trackID) ==
  IF \E i \in 1..Len(readers) : readers[i].trackID = trackID
    THEN CHOOSE i \in 1..Len(readers) :
           /\ readers[i].trackID = trackID
           /\ \A j \in 1..(i - 1) : readers[j].trackID # trackID
    ELSE IF readers # << >> THEN 1 ELSE 0

\* findMatching: the first index whose trackID matches, 0 for notFound.
FindMatching(readers, trackID) ==
  IF \E i \in 1..Len(readers) : readers[i].trackID = trackID
    THEN CHOOSE i \in 1..Len(readers) :
           /\ readers[i].trackID = trackID
           /\ \A j \in 1..(i - 1) : readers[j].trackID # trackID
    ELSE 0

\* History: the sample is noted on every channel whose id it carries.
Received(readers, mediaSample, trackID) ==
  [i \in 1..Len(readers) |->
     IF readers[i].trackID = trackID
       THEN [readers[i] EXCEPT !.received = Append(@, mediaSample)]
       ELSE readers[i]]

DidProvideMediaData ==
  /\ mainPc = "locked"
  /\ mainTask.op = "sample"
  /\ LET trackIndex == FindMatching(m_trackReaders, mainTask.trackID)
         mediaSample == [gen |-> mainTask.gen, n |-> mainTask.sample]
         noted == Received(m_trackReaders, mediaSample, mainTask.trackID)
     IN m_trackReaders' =
          IF trackIndex # 0
            THEN AddSample(noted, trackIndex, mediaSample, m_byteSource)
            ELSE noted
  /\ m_parseTracksLock' = Unlocked
  /\ mainPc' = "idle"
  /\ mainTask' = NoTask
  /\ UNCHANGED <<m_byteSource, m_parseTracksStatus, m_duration, generation,
                 durationGen, reported, m_parseTracksCondition, mainQueue,
                 parserVars, started, callerVars>>

\* finishParsing: every TrackReader is told, the parser's callbacks are
\* cleared and its state reset.
FinishParsing ==
  /\ mainPc = "locked"
  /\ mainTask.op = "finish"
  /\ m_trackReaders' =
       [i \in 1..Len(m_trackReaders) |->
          [m_trackReaders[i] EXCEPT !.finished = TRUE]]
  /\ parser' = [parser EXCEPT ![mainTask.gen] = "reset"]
  /\ m_parseTracksLock' = Unlocked
  /\ mainPc' = "idle"
  /\ mainTask' = NoTask
  /\ UNCHANGED <<m_byteSource, m_parseTracksStatus, m_duration, generation,
                 durationGen, reported, m_parseTracksCondition, mainQueue,
                 emitted, started, callerVars>>

\* ------------------------------------------------------------ the parser
\* SourceBufferParser::appendData on the reader queue.  It reports the
\* initialization segment at most once and first, then media samples, an
\* error at any point, before the segment ("failed") or after it
\* ("stopped"), and nothing after an error; when appendData returns,
\* finishParsing is posted.  Every callback is posted to the main thread,
\* which runs what is posted in the order posted: the model lets a parser
\* post a callback at the moment the main thread starts to run it, which
\* gives the same orders of handlers as a queue between the two.
ParserInitializationSegment(b, segments) ==
  /\ parser[b] = "appending"
  /\ \E seg \in segments : MainHoldLock([Task("init", b) EXCEPT !.seg = seg])
  /\ parser' = [parser EXCEPT ![b] = "data"]
  /\ UNCHANGED <<mainQueue, emitted>>

ParserMediaSample(b) ==
  /\ parser[b] = "data"
  /\ emitted[b] < MaxSamples
  /\ \E id \in TrackIDs :
       MainHoldLock([Task("sample", b) EXCEPT !.trackID = id,
                                              !.sample = emitted[b] + 1])
  /\ emitted' = [emitted EXCEPT ![b] = @ + 1]
  /\ UNCHANGED <<mainQueue, parser>>

ParserError(b) ==
  /\ parser[b] \in {"appending", "data"}
  /\ \E code \in ErrorCodes : MainHoldLock([Task("error", b) EXCEPT !.code = code])
  /\ parser' = [parser EXCEPT ![b] =
       IF parser[b] = "appending" THEN "failed" ELSE "stopped"]
  /\ UNCHANGED <<mainQueue, emitted>>

AppendDataReturns(b) ==
  /\ parser[b] \in {"appending", "data", "failed", "stopped"}
  /\ MainHoldLock(Task("finish", b))
  /\ parser' = [parser EXCEPT ![b] = "returned"]
  /\ UNCHANGED <<mainQueue, emitted>>

\* ------------------------------------------------------------ the queries
\* PAL::toCMTime: an invalid MediaTime becomes kCMTimeInvalid.
ToCMTime(time) ==
  IF time.valid THEN [flags |-> "Valid", value |-> time.value]
  ELSE [flags |-> "Invalid", value |-> 0]

NoCMTime == [flags |-> "None", value |-> 0]

\* What a call returns: the OSStatus and what it stored through its
\* out-parameter.
Returned(ret, cmTime, trackArray) ==
  [ret |-> ret, duration |-> cmTime, tracks |-> trackArray]

\* holdLock at the head of copyProperty and copyTrackArray.
CallerHoldLock(t, function) ==
  /\ pc[t] = "idle"
  /\ t = Main => mainPc = "idle"
  /\ m_parseTracksLock = Unlocked
  /\ m_parseTracksLock' = t
  /\ pc' = [pc EXCEPT ![t] = "locked"]
  /\ call' = [call EXCEPT ![t] = function]
  /\ UNCHANGED <<session, m_parseTracksCondition, mainVars, parserVars,
                 started, result, blockedEarly>>

CopyPropertyCall(t) == CallerHoldLock(t, "copyProperty")

CopyTrackArrayCall(t) == CallerHoldLock(t, "copyTrackArray")

\* The predicate of m_parseTracksCondition.wait
OutcomeKnown == m_parseTracksStatus # "nullopt"

\* Wait with a thread that parks without releasing the lock.
WaitHoldingLock(t) ==
  /\ pc[t] = "locked"
  /\ m_parseTracksStatus = "nullopt"
  /\ m_parseTracksCondition' = m_parseTracksCondition \cup {t}
  /\ pc' = [pc EXCEPT ![t] = "waiting"]
  /\ blockedEarly' = IF ~reported THEN blockedEarly \cup {t} ELSE blockedEarly
  /\ UNCHANGED <<session, m_parseTracksLock, mainVars, parserVars, started,
                 call, result>>

\* Condition::wait with the predicate false: the lock is released and the
\* thread parks until notifyAll.
Wait(t) ==
  /\ pc[t] = "locked"
  /\ ~OutcomeKnown
  /\ m_parseTracksCondition' = m_parseTracksCondition \cup {t}
  /\ m_parseTracksLock' = Unlocked
  /\ pc' = [pc EXCEPT ![t] = "waiting"]
  /\ blockedEarly' = IF ~reported THEN blockedEarly \cup {t} ELSE blockedEarly
  /\ UNCHANGED <<session, mainVars, parserVars, started, call, result>>

\* A notified thread takes the lock again and tests the predicate again.
WakeUp(t) ==
  /\ pc[t] = "waiting"
  /\ t \notin m_parseTracksCondition
  /\ m_parseTracksLock = Unlocked
  /\ m_parseTracksLock' = t
  /\ pc' = [pc EXCEPT ![t] = "locked"]
  /\ UNCHANGED <<session, m_parseTracksCondition, mainVars, parserVars,
                 started, call, result, blockedEarly>>

\* What copyProperty returns for a key; dictionary tells whether
\* CMTimeCopyAsDictionary returned a dictionary.
PropertyFor(key, dictionary) ==
  IF key = "Duration" /\ dictionary
    THEN Returned("noErr", ToCMTime(m_duration), << >>)
    ELSE Returned("ValueNotAvailable", NoCMTime, << >>)

\* The rest of copyProperty, from the wait on.
CopyProperty(t) ==
  /\ pc[t] = "locked"
  /\ call[t] = "copyProperty"
  /\ OutcomeKnown
  /\ \E key \in Keys, dictionary \in BOOLEAN :
       result' = [result EXCEPT ![t] = PropertyFor(key, dictionary)]
  /\ m_parseTracksLock' = Unlocked
  /\ pc' = [pc EXCEPT ![t] = "done"]
  /\ UNCHANGED <<session, m_parseTracksCondition, mainVars, parserVars,
                 started, call, blockedEarly>>

\* The array copyTrackArray returns: the wrappers of m_trackReaders in
\* order (gen is history).
TrackArray(readers) ==
  [i \in 1..Len(readers) |->
     [trackID |-> readers[i].trackID, kind |-> readers[i].kind,
      gen |-> readers[i].gen]]

TrackArrayResult ==
  IF m_parseTracksStatus # "noErr"
    THEN Returned(m_parseTracksStatus, NoCMTime, << >>)
    ELSE Returned("noErr", NoCMTime, TrackArray(m_trackReaders))

\* The rest of copyTrackArray, from the wait on.
CopyTrackArray(t) ==
  /\ pc[t] = "locked"
  /\ call[t] = "copyTrackArray"
  /\ OutcomeKnown
  /\ result' = [result EXCEPT ![t] = TrackArrayResult]
  /\ m_parseTracksLock' = Unlocked
  /\ pc' = [pc EXCEPT ![t] = "done"]
  /\ UNCHANGED <<session, m_parseTracksCondition, mainVars, parserVars,
                 started, call, blockedEarly>>

\* ------------------------------------------------------------ specification
\* The handlers of the main thread but the delivery of media samples.
MainThread ==
  \/ ParseByteSourceNoParser
  \/ ParseByteSourceHoldLock
  \/ ParseByteSource
  \/ DidParseInitializationData
  \/ DidEncounterErrorDuringParsing
  \/ FinishParsing

ReaderQueue(b, segments) ==
  \/ ParserInitializationSegment(b, segments)
  \/ ParserError(b)
  \/ AppendDataReturns(b)

MediaSamples(b) ==
  \/ ParserMediaSample(b)
  \/ DidProvideMediaData

Caller(t) ==
  \/ CopyPropertyCall(t)
  \/ CopyTrackArrayCall(t)
  \/ Wait(t)
  \/ WakeUp(t)
  \/ CopyProperty(t)
  \/ CopyTrackArray(t)

\* The outcome of a parse and the queries for it: everything but media
\* samples, which touch the samples of a TrackReader and nothing else.
Next ==
  \/ StartOnMainThread(MaxGenerations)
  \/ MainThread
  \/ \E b \in ByteSources : ReaderQueue(b, Segments)
  \/ \E t \in Threads : Caller(t)

Spec == Init /\ [][Next]_vars

\* One parse, with copyTrackArray called on the main thread as well, which
\* ASSERT(!isMainThread()) forbids and a release build lets through.
NextMainThread ==
  \/ StartOnMainThread(1)
  \/ MainThread
  \/ \E b \in ByteSources : ReaderQueue(b, Segments)
  \/ \E t \in AllThreads : Caller(t)

SpecMainThread == Init /\ [][NextMainThread]_vars

\* Scheduling: the main thread runs the task it has, the reader queue runs
\* appendData to its end, a thread inside copyProperty or copyTrackArray
\* runs on.  Nothing obliges startOnMainThread or a query to be called.
Fairness ==
  /\ WF_vars(MainThread)
  /\ \A b \in ByteSources : WF_vars(ReaderQueue(b, Segments))
  /\ \A t \in Threads :
       WF_vars(Wait(t) \/ WakeUp(t) \/ CopyProperty(t) \/ CopyTrackArray(t))

FairSpec == Spec /\ Fairness

\* didParseTracks on every segment, on an empty and on a filled track list:
\* the parsers report segments of all kinds; no thread queries.
NextTracks ==
  \/ StartOnMainThread(MaxGenerations)
  \/ MainThread
  \/ \E b \in ByteSources : ReaderQueue(b, AllSegments)

SpecTracks == Init /\ [][NextTracks]_vars

\* The delivery of media samples to the channels; no thread queries.
NextSamples ==
  \/ StartOnMainThread(MaxGenerations)
  \/ MainThread
  \/ \E b \in ByteSources : ReaderQueue(b, Segments) \/ MediaSamples(b)

SpecSamples == Init /\ [][NextSamples]_vars

\* ------------------------------------------------------------ properties
\* The main thread runs the body of the handler of a task.
HandlerRuns(op) == mainPc = "locked" /\ mainTask.op = op /\ mainPc' = "idle"

\* Thread t returns from its call.
Returns(t) == pc[t] = "locked" /\ pc'[t] = "done"

EnabledPositions(readers) == {i \in 1..Len(readers) : readers[i].enabled}

\* The channels created for the first k descriptors.
CreatedAmong(descriptors, k) ==
  Cardinality({i \in 1..k : descriptors[i].ok})

\* The positions didParseTracks enables, given the length of the list it
\* starts from: position 1 when the list has length 1 after a video track
\* is processed, position videoCount + 1 when it has that length after an
\* audio track is processed.
ExpectedEnabled(before, segment) ==
  LET videoCount == Len(segment.videoTracks)
      videos == CreatedAmong(segment.videoTracks, videoCount)
  IN {i \in {1} : \E k \in 1..videoCount :
        before + CreatedAmong(segment.videoTracks, k) = 1}
     \cup
     {i \in {videoCount + 1} : \E k \in 1..Len(segment.audioTracks) :
        before + videos + CreatedAmong(segment.audioTracks, k) = videoCount + 1}

\* C1 as stated, where every channel is created and the list starts empty:
\* a successful didParseTracks for a segment with a video or an audio track
\* leaves exactly one channel enabled, the first of the list (the first
\* video track if there is one, otherwise the first audio track).
C1_ExactlyOneEnabled ==
  [][(/\ HandlerRuns("init")
      /\ m_trackReaders = << >>
      /\ AllCreated(mainTask.seg)
      /\ Len(mainTask.seg.videoTracks) + Len(mainTask.seg.audioTracks) > 0) =>
       EnabledPositions(m_trackReaders') = {1}]_vars

\* C1 amended: a successful didParseTracks enables position 1 if the list
\* has length 1 after some video track is processed and position
\* videoCount + 1 if it has that length after some audio track is
\* processed, and nothing else: from an empty list with every channel
\* created, the first video track and the first audio track, both.
C1_EnabledTracks ==
  [][HandlerRuns("init") =>
       EnabledPositions(m_trackReaders') =
         EnabledPositions(m_trackReaders)
           \cup ExpectedEnabled(Len(m_trackReaders), mainTask.seg)]_vars

\* C1's case: one video and one audio track parsed, both enabled.
C1_VideoAndAudioEnabled ==
  /\ m_parseTracksStatus = "noErr"
  /\ Len(m_trackReaders) = 2
  /\ m_trackReaders[1].kind = "video" /\ m_trackReaders[1].enabled
  /\ m_trackReaders[2].kind = "audio" /\ m_trackReaders[2].enabled
  /\ m_trackReaders[1].gen = m_trackReaders[2].gen

OneGeneration(tracks) ==
  \A i, j \in 1..Len(tracks) : tracks[i].gen = tracks[j].gen

\* C2: neither the track list nor the array a query returns holds channels
\* created from the segments of two generations.
C2_NoMixedGenerations ==
  /\ OneGeneration(m_trackReaders)
  /\ \A t \in Threads : OneGeneration(result[t].tracks)

\* C3: every didParseTracks call finds the status unset, the duration
\* invalid and the track list empty, and a status that is set changes only
\* by the reset of parseByteSource.
C3_OutcomeSetOnce ==
  [][/\ (HandlerRuns("init") \/ HandlerRuns("error")) =>
          /\ m_parseTracksStatus = "nullopt"
          /\ m_duration = InvalidTime
          /\ m_trackReaders = << >>
     /\ (m_parseTracksStatus # "nullopt"
           /\ m_parseTracksStatus' # m_parseTracksStatus) =>
          (HandlerRuns("parse") /\ m_parseTracksStatus' = "nullopt")]_vars

\* C4: m_byteSource, m_parseTracksStatus, m_duration and m_trackReaders are
\* written by the main thread with the lock held.
C4_WritesHoldLock ==
  [][<<m_byteSource, m_parseTracksStatus, m_duration, m_trackReaders>>'
       # <<m_byteSource, m_parseTracksStatus, m_duration, m_trackReaders>>
     => m_parseTracksLock = Main]_vars

\* C5: the calls that blocked before the parser reported anything return
\* the same thing: the same status and track array from copyTrackArray,
\* the same duration from copyProperty.
C5_EarlyQueriesAgree ==
  \A t, u \in blockedEarly :
    (pc[t] = "done" /\ pc[u] = "done" /\ call[t] = call[u]) =>
      /\ call[t] = "copyTrackArray" => result[t] = result[u]
      /\ (result[t].ret = "noErr" /\ result[u].ret = "noErr") =>
           result[t] = result[u]

\* C6: a query that returns noErr returns nothing made from the segment of
\* another generation than that of the last reset: neither the duration
\* nor a channel.
C6_QueriesSeeCurrentGeneration ==
  [][\A t \in Threads :
       (Returns(t) /\ result'[t].ret = "noErr") =>
         /\ durationGen \in {0, generation}
         /\ \A i \in 1..Len(result'[t].tracks) :
              result'[t].tracks[i].gen = generation]_vars

\* C7: after a parse error reported before any initialization segment,
\* copyProperty returns kCMBaseObjectError_ValueNotAvailable.
C7_ErrorGivesValueNotAvailable ==
  [][\A t \in Threads :
       (/\ Returns(t)
        /\ call[t] = "copyProperty"
        /\ m_parseTracksStatus = "ParsingFailure"
        /\ \A b \in ByteSources : parser[b] \in {"none", "failed", "returned", "reset"}
        /\ m_trackReaders = << >>) =>
         result'[t].ret = "ValueNotAvailable"]_vars

\* A handler waits for the main thread: a parseByteSource task, or a
\* parser with something to post.
HandlerPending ==
  \/ mainQueue # << >>
  \/ \E b \in ByteSources : parser[b] \in {"appending", "data", "failed", "stopped"}

\* C8 as stated: copyTrackArray called on any thread, the main thread too,
\* keeps no handler from running: the main thread is never parked on the
\* condition while a handler waits for it.
C8_AnyThreadMayCall ==
  \A t \in AllThreads :
    (pc[t] = "waiting" /\ HandlerPending /\ mainPc = "idle") =>
      pc[Main] \in {"idle", "done"}

\* C8 amended: copyTrackArray called on a thread other than the main thread
\* keeps no handler from running; while a handler waits and the main thread
\* is not itself inside copyTrackArray, the lock is free or held by a thread
\* that is running and about to release it, never by a parked one.
C8_CallersNeverBlockHandlers ==
  (HandlerPending /\ MainThreadIdle) =>
    \/ m_parseTracksLock = Unlocked
    \/ m_parseTracksLock \in Threads /\ pc[m_parseTracksLock] = "locked"

\* C8's case: a thread is parked in copyTrackArray with the outcome unset
\* and the main thread runs didParseTracks.
C8_HandlerRunsWhileParked ==
  \E t \in Threads :
    /\ pc[t] = "waiting" /\ t \in m_parseTracksCondition
    /\ call[t] = "copyTrackArray"
    /\ mainPc = "locked" /\ mainTask.op \in {"init", "error"}

\* The error callback is about to run in a generation whose outcome is
\* unset, with thread t parked.
ErrorWithParked(t) ==
  /\ pc[t] = "waiting" /\ t \in m_parseTracksCondition
  /\ mainPc = "locked" /\ mainTask.op = "error"
  /\ m_parseTracksStatus = "nullopt"

\* parseByteSource holds the lock and is about to reset the session.
ResetRuns == mainPc = "locked" /\ mainTask.op = "parse"

RECURSIVE CreatedOf(_, _, _)
CreatedOf(descriptors, kind, gen) ==
  IF descriptors = << >> THEN << >>
  ELSE (IF Head(descriptors).ok
          THEN << [trackID |-> Head(descriptors).trackID, kind |-> kind,
                   gen |-> gen] >>
          ELSE << >>) \o CreatedOf(Tail(descriptors), kind, gen)

DeclaredTracks(segment, gen) ==
  CreatedOf(segment.videoTracks, "video", gen)
    \o CreatedOf(segment.audioTracks, "audio", gen)
    \o CreatedOf(segment.textTracks, "text", gen)

\* C10: after a successful initialization callback the track list is the
\* segment's video, audio and text tracks in that order, and copyTrackArray
\* returns noErr with that list.
C10_TracksInDeclaredOrder ==
  [][/\ HandlerRuns("init") =>
          /\ m_parseTracksStatus' = "noErr"
          /\ TrackArray(m_trackReaders') = DeclaredTracks(mainTask.seg, mainTask.gen)
     /\ \A t \in Threads :
          (Returns(t) /\ call[t] = "copyTrackArray"
             /\ m_parseTracksStatus = "noErr") =>
            result'[t] = Returned("noErr", NoCMTime, TrackArray(m_trackReaders))]_vars

\* The failure codes of m_parseTracksStatus.
Failures == {"ParsingFailure", "AllocationFailure"}

\* A step of startOnMainThread or of parseByteSource.
StartParseStep ==
  started' # started \/ mainQueue' # mainQueue \/ HandlerRuns("parse")

\* C11: a non-zero error code gives ParsingFailure and a zero code noErr;
\* with a failure as the status copyTrackArray returns that failure and no
\* array; and a failure stays the status, for the queries that were blocked
\* and the later ones, until startOnMainThread is called or parseByteSource
\* runs again.
C11_FailureSurfaced ==
  [][/\ HandlerRuns("error") => m_parseTracksStatus' = "ParsingFailure"
     /\ HandlerRuns("init") => m_parseTracksStatus' = "noErr"
     /\ \A t \in Threads :
          (Returns(t) /\ call[t] = "copyTrackArray"
             /\ m_parseTracksStatus \in Failures) =>
            result'[t] = Returned(m_parseTracksStatus, NoCMTime, << >>)
     /\ (m_parseTracksStatus \in Failures /\ ~StartParseStep) =>
          m_parseTracksStatus' = m_parseTracksStatus]_vars

\* No channel carries the track id of the sample the main thread delivers.
NoChannelMatches ==
  \A i \in 1..Len(m_trackReaders) :
    m_trackReaders[i].trackID # mainTask.trackID

\* C12: didProvideMediaData for a track id that no channel carries, an
\* empty track list included, changes neither a channel nor the status,
\* the duration, the byte source or the track list.
C12_UnmatchedSampleDropped ==
  [][(HandlerRuns("sample") /\ NoChannelMatches) =>
       UNCHANGED <<m_trackReaders, m_parseTracksStatus, m_duration,
                   m_byteSource>>]_vars

\* C12's case: the parser of the current byte source has delivered a
\* sample, the only one so far, the track list is not empty and no channel
\* holds a sample.
C12_SampleDropped ==
  \E b \in ByteSources :
    /\ generation = b /\ emitted[b] >= 1
    /\ \A c \in ByteSources \ {b} : emitted[c] = 0
    /\ mainPc = "idle"
    /\ m_trackReaders # << >>
    /\ \A i \in 1..Len(m_trackReaders) : m_trackReaders[i].samples = << >>

\* C13: with noErr as the status, copyProperty returning noErr stores the
\* duration of the initialization segment that the parser of the byte
\* source of the last reset reported.
C13_DurationOfCurrentSegment ==
  [][\A t \in Threads :
       (/\ Returns(t) /\ call[t] = "copyProperty"
        /\ m_parseTracksStatus = "noErr"
        /\ result'[t].ret = "noErr") =>
         /\ result'[t].duration.flags = "Valid"
         /\ result'[t].duration.value \in SegmentDurations
         /\ durationGen = generation]_vars

\* parseByteSource returns at once, SourceBufferParser::create having
\* returned null: a task leaves the queue and the main thread stays idle.
NoParserStep ==
  Len(mainQueue') < Len(mainQueue) /\ mainPc = "idle" /\ mainPc' = "idle"

\* C14: parseByteSource whose parser is not created leaves AllocationFailure
\* as the status, starts no parser and resets nothing; from then on, until
\* startOnMainThread is called or parseByteSource runs again, the status
\* stays AllocationFailure and copyTrackArray returns it without waiting.
C14_AllocationFailureAborts ==
  [][/\ NoParserStep =>
          /\ m_parseTracksStatus' = "AllocationFailure"
          /\ UNCHANGED <<parser, m_byteSource, m_duration, m_trackReaders>>
     /\ (m_parseTracksStatus = "AllocationFailure" /\ ~StartParseStep) =>
          m_parseTracksStatus' = "AllocationFailure"
     /\ \A t \in Threads :
          (Returns(t) /\ call[t] = "copyTrackArray"
             /\ m_parseTracksStatus = "AllocationFailure") =>
            result'[t].ret = "AllocationFailure"]_vars

\* The media samples of a channel, without the byte source paired with
\* each.
SamplesOf(reader) ==
  [k \in 1..Len(reader.samples) |->
     [gen |-> reader.samples[k].gen, n |-> reader.samples[k].n]]

\* C15: the samples of every channel are the samples delivered for its
\* track id since it was created, in the order delivered.
C15_SamplesInOrder ==
  \A i \in 1..Len(m_trackReaders) :
    SamplesOf(m_trackReaders[i]) = m_trackReaders[i].received

\* C16: finishParsing finds the status set, and changes neither the status,
\* the duration, the byte source nor the channels of the track list and
\* their order; it marks every channel finished.
C16_FinishParsingFrame ==
  [][HandlerRuns("finish") =>
       /\ m_parseTracksStatus # "nullopt"
       /\ UNCHANGED <<m_parseTracksStatus, m_duration, m_byteSource>>
       /\ TrackArray(m_trackReaders') = TrackArray(m_trackReaders)
       /\ \A i \in 1..Len(m_trackReaders') : m_trackReaders'[i].finished]_vars

\* C17: a thread parked on the condition while the status is set is
\* notified in the end, whichever path set the status.
C17_OutcomeSetWakesQueries ==
  \A t \in Threads :
    (t \in m_parseTracksCondition /\ OutcomeKnown)
      ~> (t \notin m_parseTracksCondition)

\* C18: every sample of a channel comes from the parser whose segment
\* declared the channel, and is paired with the byte source of that parser.
C18_SamplesOfOwnGeneration ==
  \A i \in 1..Len(m_trackReaders) :
    \A k \in 1..Len(m_trackReaders[i].samples) :
      /\ m_trackReaders[i].samples[k].gen = m_trackReaders[i].gen
      /\ m_trackReaders[i].samples[k].byteSource = m_trackReaders[i].gen

\* C19: addSample is never applied to a channel to which finishParsing has
\* been applied.
C19_NoSampleAfterFinish ==
  [][(HandlerRuns("sample") /\ ~NoChannelMatches) =>
       ~m_trackReaders[FindMatching(m_trackReaders, mainTask.trackID)].finished]_vars

\* Thread t enters copyProperty or copyTrackArray and takes the lock.
QueryStarts(t) == pc[t] = "idle" /\ pc'[t] = "locked"

\* C20: a query that starts after startOnMainThread has returned for a new
\* byte source, on a session that has been reset for an earlier one, finds
\* the status unset and waits, even while the parseByteSource task of the
\* new byte source is still queued.  (A thread that takes the lock with
\* the status set returns it: nothing resets the status while it holds the
\* lock.)
C20_QueriesWaitForNewByteSource ==
  [][\A t \in Threads :
       (QueryStarts(t) /\ generation >= 1 /\ mainQueue # << >>) =>
         ~OutcomeKnown]_vars

====
